---- MODULE Spec2Model ----
(***************************************************************************)
(* Model of the Foundry IQ agent creator                                   *)
(* (.github/skills/foundry-iq-python/scripts/create_agent.py).             *)
(*                                                                         *)
(* The remote backends (search service, management plane, agent service)   *)
(* are modelled as named-resource stores.  Every backend request either    *)
(* takes effect or fails; which of the two happens is a nondeterministic   *)
(* input of the action that issues the request.                            *)
(***************************************************************************)
EXTENDS Integers, Sequences, FiniteSets, TLC

\* ---------------------------------------------------------------- bounds
MaxRuns == 3                       \* invocations started in one behaviour
MaxInputRuns == 1                  \* the same, when all inputs are varied
MaxNames == 2                      \* length of an evaluator name list
MaxBasicRuns == 3                  \* executions of the basic agent example
MaxConcRuns == 3                   \* CLI invocations when two may run at once

AgentNames == {"a", "b"}           \* values of --agent-name
IndexNames == {"my-index"}         \* values of --index-name
ReasoningInputs == {"", "low", "extreme"}      \* --reasoning ("": not given)
FieldInputs == {<<>>, <<"content">>}           \* --source-fields (<<>>: not given)
Procs == {"p1", "p2"}              \* OS processes that may run the script
MainProc == "p1"                   \* the one used by sequential invocations

\* ------------------------------------------------------ program constants
API_VERSION == "2025-11-01-preview"
MGMT_API_VERSION == "2025-10-01-preview"
REQUIRED_ENV_VARS ==
    <<"AZURE_SEARCH_ENDPOINT", "AZURE_OPENAI_ENDPOINT", "PROJECT_ENDPOINT", "PROJECT_RESOURCE_ID">>

\* values of the environment variables read by FoundryIQAgentBuilder.__init__
search_endpoint == "https://search"
project_resource_id == "/subscriptions/s/project"

\* Python's None / empty string (both falsy) for optional string arguments,
\* and the absent agent version
None == ""
NoVersion == 0

\* str(e) of the exceptions the SDK clients, the credential and the HTTP
\* transport raise
SdkErrors == {"HttpResponseError"}
RequestErrors == {"ConnectionError"}

\* ------------------------------------------------------- pure derivations
\* main: names derived from the agent name
ks_name(A) == "ks-" \o A
\* a copy-paste slip: the knowledge base gets the knowledge source's prefix
kb_name_copy(A) == "ks-" \o A
kb_name(A) == "kb-" \o A
\* one connection name for every agent
conn_name_shared(A) == "conn-" \o "agent"
conn_name(A) == "conn-" \o A

\* create_knowledge_base: the retrieval endpoint returned with the kb
\* the endpoint without its api-version query
mcp_endpoint_of_noversion(name) ==
    search_endpoint \o "/knowledgebases/" \o name \o "/mcp"
mcp_endpoint_of(name) ==
    search_endpoint \o "/knowledgebases/" \o name \o "/mcp?api-version=" \o API_VERSION

\* create_project_connection / delete_resources: management URL of a connection
connection_url(connection_name) ==
    "https://management.azure.com" \o project_resource_id \o "/connections/"
        \o connection_name \o "?api-version=" \o MGMT_API_VERSION

\* str(e) of the HTTPError raised by response.raise_for_status()
http_error_text(url) == "Client Error for url: " \o url

VARIABLES
    ks,          \* backend: knowledge sources (set of records)
    kb,          \* backend: knowledge bases
    conn,        \* backend: project connections
    agents,      \* backend: agent versions
    issued,      \* backend: per agent name, the number of versions issued
    versions_returned, \* per agent name, the versions create_version has returned
    runs,        \* number of invocations started so far
    pc,          \* per process: position in main / delete_resources
    kind,        \* per process: "main" (CLI run) or "delete_resources" (direct call)
    args,        \* per process: parsed command line and environment
    del,         \* per process: the arguments of delete_resources
    mcp_endpoint,\* per process: main's local mcp_endpoint
    agent,       \* per process: main's local agent (its version, NoVersion for None)
    ret,         \* per process: "" while running, then "0"/"1" (main's return
                 \* value), "None" (delete_resources returned) or "raise"
    out,         \* per process: lines printed
    calls,       \* per process: backend requests issued, with their results
    basic_pc,    \* basic_agent.py: position in main
    basic_agent, \* basic_agent.py: main's local agent (its id, NoAgent for None)
    basic_exc,   \* basic_agent.py: the exception in flight, None if none
    basic_calls, \* basic_agent.py: client requests issued, with their results
    basic_out,   \* basic_agent.py: lines printed
    basic_store, \* agents service: ids of the agents that exist
    basic_ids,   \* agents service: number of agent ids issued
    basic_runs,  \* number of executions of basic_agent.py started
    eval_pc,     \* run_batch_evaluation.py: position in main / build_evaluators
    eval_kind,   \* "main" (CLI run) or "build_evaluators" (direct call)
    eval_args,   \* parsed command line, environment and file system
    eval_names,  \* main's local evaluator_names
    eval_evaluators, \* the evaluators mapping built so far (name -> instance)
    eval_passed, \* the names passed to build_safety_evaluator
    eval_ret,    \* "" while running, then the exit code, "returned" or the
                 \* exception that left build_evaluators
    eval_out,    \* lines printed
    eval_evaluate, \* number of evaluate(...) invocations of this run
    eval_written \* whether this run has written the --output file

backend == <<ks, kb, conn, agents, issued, versions_returned>>
locals == <<pc, kind, args, del, mcp_endpoint, agent, ret, out, calls>>
basic == <<basic_pc, basic_agent, basic_exc, basic_calls, basic_out,
           basic_store, basic_ids, basic_runs>>
foundry == <<backend, runs, locals>>
evalv == <<eval_pc, eval_kind, eval_args, eval_names, eval_evaluators, eval_passed,
           eval_ret, eval_out, eval_evaluate, eval_written>>
vars == <<ks, kb, conn, agents, issued, versions_returned, runs,
          pc, kind, args, del, mcp_endpoint, agent, ret, out, calls,
          basic_pc, basic_agent, basic_exc, basic_calls, basic_out,
          basic_store, basic_ids, basic_runs,
          eval_pc, eval_kind, eval_args, eval_names, eval_evaluators, eval_passed,
          eval_ret, eval_out, eval_evaluate, eval_written>>

\* ------------------------------------------------------- backend semantics
Names(store) == {x.name : x \in store}

\* create_or_update_* and PUT: create-or-replace keyed by resource name
Upsert(store, rec) == {x \in store : x.name # rec.name} \cup {rec}

\* create-only semantics: a request for an existing name is refused
UpsertResults_createonly(store, name, faults) ==
    IF name \in Names(store) THEN {"ResourceExistsError"} ELSE {"ok"} \cup faults

\* The results a create-or-replace request may have: it is accepted whether
\* or not the name exists, or it fails with one of `faults`
UpsertResults(store, name, faults) == {"ok"} \cup faults

\* The results a delete request of an SDK client may have.  For a resource
\* that does not exist the service may answer success or "not found"; the
\* SDK raises the latter as ResourceNotFoundError.
DeleteResults(exists, faults) ==
    IF exists THEN {"ok"} \cup faults
    ELSE {"ok", "ResourceNotFoundError"} \cup faults

\* delete_* and DELETE accepted by the backend: the named resource is gone
Remove(store, name) == {x \in store : x.name # name}

\* a backend that hands out version 1 again and again
NextVersion_reuse(A) == 1

\* create_version: the backend issues the next version of the agent name
NextVersion(A) == issued[A] + 1

\* delete_version accepted by the backend
RemoveVersion(store, A, v) == {x \in store : ~(x.name = A /\ x.version = v)}

\* ------------------------------------------------------------- records
Line(tag, text, version) == [tag |-> tag, text |-> text, version |-> version]
Call(op, name, result, version) ==
    [op |-> op, name |-> name, result |-> result, version |-> version]

\* source_fields=None of create_knowledge_source (a list given on the command
\* line is never empty: nargs="+")
NoFields == <<>>

NoArgs == [agent_name |-> None, index_name |-> None, cleanup |-> FALSE,
           test_query |-> FALSE, env |-> {}, reasoning |-> None,
           fields_flag |-> FALSE, source_fields |-> NoFields]
\* agent = None of basic_agent.py
NoAgent == 0

\* run_batch_evaluation.py before it is started
NoEvalArgs == [data_given |-> FALSE, data_exists |-> FALSE, evaluators |-> <<>>, safety |-> FALSE,
               agent |-> FALSE, reasoning_model |-> FALSE, output |-> FALSE,
               endpoint |-> FALSE, project_scope |-> FALSE]

NoDel == [agent_name |-> None, agent_version |-> NoVersion,
          connection_name |-> None, kb_name |-> None, ks_name |-> None]

Terminated(p) == pc[p] \in {"idle", "done", "returned", "raised"}

Init ==
    /\ ks = {} /\ kb = {} /\ conn = {} /\ agents = {}
    /\ issued = [A \in AgentNames |-> 0]
    /\ versions_returned = [A \in AgentNames |-> <<>>]
    /\ runs = 0
    /\ pc = [p \in Procs |-> "idle"]
    /\ kind = [p \in Procs |-> "main"]
    /\ args = [p \in Procs |-> NoArgs]
    /\ del = [p \in Procs |-> NoDel]
    /\ mcp_endpoint = [p \in Procs |-> None]
    /\ agent = [p \in Procs |-> NoVersion]
    /\ ret = [p \in Procs |-> ""]
    /\ out = [p \in Procs |-> <<>>]
    /\ calls = [p \in Procs |-> <<>>]
    /\ basic_pc = "idle"
    /\ basic_agent = NoAgent
    /\ basic_exc = None
    /\ basic_calls = <<>>
    /\ basic_out = <<>>
    /\ basic_store = {}
    /\ basic_ids = 0
    /\ basic_runs = 0
    /\ eval_pc = "idle"
    /\ eval_kind = "main"
    /\ eval_args = NoEvalArgs
    /\ eval_names = <<>>
    /\ eval_evaluators = <<>>
    /\ eval_passed = <<>>
    /\ eval_ret = ""
    /\ eval_out = <<>>
    /\ eval_evaluate = 0
    /\ eval_written = FALSE

\* ------------------------------------------------------------- helpers
Set(f, p, v) == [f EXCEPT ![p] = v]
Printed(p, lines) == Set(out, p, out[p] \o lines)
Called(p, c) == Set(calls, p, Append(calls[p], c))

\* the environments the script may be started in: every required variable
\* set, or one of them missing or empty
RequiredSet == {REQUIRED_ENV_VARS[i] : i \in DOMAIN REQUIRED_ENV_VARS}
EnvChoices == {RequiredSet} \cup {RequiredSet \ {v} : v \in RequiredSet}

\* validate_environment: the required variables that os.environ.get finds
\* unset or empty, in the order of REQUIRED_ENV_VARS
Missing(env) == SelectSeq(REQUIRED_ENV_VARS, LAMBDA v : v \notin env)
\* only a run with every required variable missing is refused
validate_environment_lax(env) == Missing(env) # REQUIRED_ENV_VARS
validate_environment(env) == Missing(env) = <<>>

\* The exceptions a provisioning step may raise: the SDK steps raise the
\* SDK's errors; step 3 raises what the token fetch or the transport raise,
\* or the HTTPError of raise_for_status()
StepFaults(step) ==
    IF step = "step3" THEN {"HTTPError"} \cup RequestErrors ELSE SdkErrors
ExcType(res) == IF res = "HTTPError" THEN "HTTPError" ELSE "Exception"
ExcText(A, res) ==
    IF res = "HTTPError" THEN http_error_text(connection_url(conn_name(A))) ELSE res

\* main's except clauses: HTTPError is reported as "API Error", any other
\* Exception as "Error"; both return 1
ExceptTag(exc) == IF exc = "HTTPError" THEN "API Error" ELSE "Error"

\* an except clause that reports the error and lets the run go on
Raise_swallow(p, exc, text, printed) ==
    /\ out' = Printed(p, printed \o <<Line(ExceptTag(exc), text, NoVersion)>>)
    /\ ret' = ret
    /\ pc' = Set(pc, p, CASE pc[p] = "step1" -> "step2"
                          [] pc[p] = "step2" -> "step3"
                          [] pc[p] = "step3" -> "step4"
                          [] pc[p] = "step4" -> "ready"
                          [] OTHER -> "done")

\* An exception raised by a builder method, after it printed `printed`.
\* In main it is caught and reported; out of a direct delete_resources call
\* it propagates to the caller.
Raise(p, exc, text, printed) ==
    IF kind[p] = "main"
    THEN /\ out' = Printed(p, printed \o <<Line(ExceptTag(exc), text, NoVersion)>>)
         /\ ret' = Set(ret, p, "1")
         /\ pc' = Set(pc, p, "done")
    ELSE /\ out' = Printed(p, printed)
         /\ ret' = Set(ret, p, "raise")
         /\ pc' = Set(pc, p, "raised")

\* the connection deleted before the agent version that uses it
DeleteOrder_connfirst == <<"del_conn", "del_agent", "del_kb", "del_ks">>

\* The order of the four `if` blocks of delete_resources
DeleteOrder == <<"del_agent", "del_conn", "del_kb", "del_ks">>
IndexOf(step) == CHOOSE i \in DOMAIN DeleteOrder : DeleteOrder[i] = step

\* delete_resources returns None; after it main returns 0
Return(p) ==
    /\ ret' = Set(ret, p, IF kind[p] = "main" THEN "0" ELSE "None")
    /\ pc' = Set(pc, p, IF kind[p] = "main" THEN "done" ELSE "returned")

\* falling through to the next `if` block, or off the end of the method
Continue(p, step) ==
    IF IndexOf(step) < Len(DeleteOrder)
    THEN /\ pc' = Set(pc, p, DeleteOrder[IndexOf(step) + 1])
         /\ UNCHANGED ret
    ELSE Return(p)

\* ------------------------------------------------------------- main
\* argparse: --reasoning has choices and the default "minimal";
\* --source-fields has the default ["id", "title"]
REASONING_CHOICES == {"minimal", "low", "medium"}
parse_reasoning(given) == IF given = "" THEN "minimal" ELSE given
parse_source_fields(given) == IF given = <<>> THEN <<"id", "title">> ELSE given

\* create_knowledge_source: if source_fields is None: ["id", "title", "content"]
default_source_fields(source_fields) ==
    IF source_fields = NoFields THEN <<"id", "title", "content">> ELSE source_fields

\* create_knowledge_base: reasoning_map.get(reasoning, Minimal...())
reasoning_effort(reasoning) ==
    IF reasoning \in {"minimal", "low", "medium"} THEN reasoning ELSE "minimal"

\* A sequential CLI invocation: parser.parse_args() with the command line
\* drawn from the given sets.  A --reasoning value outside the choices makes
\* argparse print its usage error and exit with status 2.
StartMainWith(p, limit, Reasonings, Fields) ==
    /\ UNCHANGED <<basic, evalv>>
    /\ p = MainProc
    /\ \A q \in Procs : Terminated(q)
    /\ runs < limit
    /\ runs' = runs + 1
    /\ \E A \in AgentNames, I \in IndexNames, c \in BOOLEAN, q \in BOOLEAN,
          env \in EnvChoices, r \in Reasonings, f \in Fields :
          /\ args' = Set(args, p, [agent_name |-> A, index_name |-> I, cleanup |-> c,
                                   test_query |-> q, env |-> env,
                                   reasoning |-> parse_reasoning(r),
                                   fields_flag |-> (f # <<>>),
                                   source_fields |-> parse_source_fields(f)])
          /\ IF parse_reasoning(r) \in REASONING_CHOICES
             THEN /\ pc' = Set(pc, p, "validate")
                  /\ ret' = Set(ret, p, "")
                  /\ out' = Set(out, p, <<>>)
             ELSE /\ pc' = Set(pc, p, "done")
                  /\ ret' = Set(ret, p, "2")
                  /\ out' = Set(out, p, <<Line("error: argument --reasoning: invalid choice",
                                              r, NoVersion)>>)
    /\ kind' = Set(kind, p, "main")
    /\ del' = Set(del, p, NoDel)
    /\ mcp_endpoint' = Set(mcp_endpoint, p, None)
    /\ agent' = Set(agent, p, NoVersion)
    /\ calls' = Set(calls, p, <<>>)
    /\ UNCHANGED backend

\* A CLI invocation started while another one may be running: two OS
\* processes running main() share nothing but the backend.  A name in use
\* by a running invocation is not taken (callers serialize per agent name).
\* The runs are started without --test-query.
StartConc(p) ==
    /\ UNCHANGED <<basic, evalv>>
    /\ pc[p] \in {"idle", "done"}
    /\ runs < MaxConcRuns
    /\ runs' = runs + 1
    /\ \E A \in AgentNames, I \in IndexNames, c \in BOOLEAN :
          /\ \A o \in Procs \ {p} : ~Terminated(o) => args[o].agent_name # A
          /\ args' = Set(args, p, [NoArgs EXCEPT !.agent_name = A, !.index_name = I,
                                                !.cleanup = c,
                                                !.env = RequiredSet,
                                                !.reasoning = parse_reasoning(""),
                                                !.source_fields = parse_source_fields(<<>>)])
    /\ pc' = Set(pc, p, "validate")
    /\ kind' = Set(kind, p, "main")
    /\ del' = Set(del, p, NoDel)
    /\ mcp_endpoint' = Set(mcp_endpoint, p, None)
    /\ agent' = Set(agent, p, NoVersion)
    /\ ret' = Set(ret, p, "")
    /\ out' = Set(out, p, <<>>)
    /\ calls' = Set(calls, p, <<>>)
    /\ UNCHANGED backend

\* a CLI invocation that leaves --reasoning and --source-fields at their defaults
StartMain(p) == StartMainWith(p, MaxRuns, {""}, {<<>>})

\* a CLI invocation with any --reasoning and --source-fields
StartMainInputs(p) == StartMainWith(p, MaxInputRuns, ReasoningInputs, FieldInputs)

\* A direct call builder.create_knowledge_source(name, index_name[, source_fields])
StartCreateKnowledgeSource(p) ==
    /\ UNCHANGED <<basic, evalv>>
    /\ p = MainProc
    /\ \A q \in Procs : Terminated(q)
    /\ runs < MaxInputRuns
    /\ runs' = runs + 1
    /\ \E A \in AgentNames, I \in IndexNames, f \in FieldInputs :
          args' = Set(args, p, [NoArgs EXCEPT !.agent_name = A, !.index_name = I,
                                             !.fields_flag = (f # NoFields),
                                             !.source_fields = f])
    /\ kind' = Set(kind, p, "create_knowledge_source")
    /\ pc' = Set(pc, p, "step1")
    /\ del' = Set(del, p, NoDel)
    /\ mcp_endpoint' = Set(mcp_endpoint, p, None)
    /\ agent' = Set(agent, p, NoVersion)
    /\ ret' = Set(ret, p, "")
    /\ out' = Set(out, p, <<>>)
    /\ calls' = Set(calls, p, <<>>)
    /\ UNCHANGED backend

\* main: if not validate_environment(): return 1; builder = FoundryIQAgentBuilder()
Validate(p) ==
    /\ UNCHANGED <<basic, evalv>>
    /\ pc[p] = "validate"
    /\ IF validate_environment(args[p].env)
       THEN /\ pc' = Set(pc, p, "step1")
            /\ UNCHANGED <<out, ret>>
       ELSE /\ out' = Printed(p, <<Line("Missing required environment variables", None, NoVersion)>>
                           \o [i \in DOMAIN Missing(args[p].env) |->
                                  Line("-", Missing(args[p].env)[i], NoVersion)])
            /\ ret' = Set(ret, p, "1")
            /\ pc' = Set(pc, p, "done")
    /\ UNCHANGED <<backend, runs, kind, args, del, mcp_endpoint, agent, calls>>

\* Step 1: builder.create_knowledge_source(ks_name, args.index_name, ...)
CreateKnowledgeSource(p) ==
    /\ UNCHANGED <<basic, evalv>>
    /\ pc[p] = "step1"
    /\ LET name == ks_name(args[p].agent_name) IN
       \E res \in UpsertResults(ks, name, StepFaults("step1")) :
          /\ calls' = Called(p, Call("create_or_update_knowledge_source", name, res, NoVersion))
          /\ IF res = "ok"
             THEN /\ ks' = Upsert(ks, [name |-> name, search_index_name |-> args[p].index_name,
                                       source_data_fields |->
                                           default_source_fields(args[p].source_fields)])
                  /\ out' = Printed(p, <<Line("Knowledge source created", name, NoVersion)>>)
                  /\ IF kind[p] = "main"
                     THEN /\ pc' = Set(pc, p, "step2")
                          /\ UNCHANGED ret
                     ELSE /\ pc' = Set(pc, p, "returned")
                          /\ ret' = Set(ret, p, "ks")
             ELSE /\ ks' = ks
                  /\ Raise(p, ExcType(res), ExcText(args[p].agent_name, res), <<>>)
    /\ UNCHANGED <<kb, conn, agents, issued, versions_returned, runs, kind, args, del,
                   mcp_endpoint, agent>>

\* Step 2: kb, mcp_endpoint = builder.create_knowledge_base(kb_name, [ks_name], ...)
CreateKnowledgeBase(p) ==
    /\ UNCHANGED <<basic, evalv>>
    /\ pc[p] = "step2"
    /\ LET name == kb_name(args[p].agent_name)
           source_names == <<ks_name(args[p].agent_name)>> IN
       \E res \in UpsertResults(kb, name, StepFaults("step2")) :
          /\ calls' = Called(p, Call("create_or_update_knowledge_base", name, res, NoVersion))
          /\ IF res = "ok"
             THEN /\ kb' = Upsert(kb, [name |-> name, knowledge_sources |-> source_names,
                                       retrieval_reasoning_effort |->
                                           reasoning_effort(args[p].reasoning)])
                  /\ out' = Printed(p, <<Line("Knowledge base created", name, NoVersion)>>)
                  /\ mcp_endpoint' = Set(mcp_endpoint, p, mcp_endpoint_of(name))
                  /\ pc' = Set(pc, p, "step3")
                  /\ UNCHANGED ret
             ELSE /\ kb' = kb
                  /\ UNCHANGED mcp_endpoint
                  /\ Raise(p, ExcType(res), ExcText(args[p].agent_name, res), <<>>)
    /\ UNCHANGED <<ks, conn, agents, issued, versions_returned, runs, kind, args, del, agent>>

\* step 3 with an automatic rollback of steps 1 and 2 when it fails
CreateProjectConnection_rollback(p) ==
    /\ UNCHANGED <<basic, evalv>>
    /\ pc[p] = "step3"
    /\ LET name == conn_name(args[p].agent_name) IN
       \E res \in {"ok"} \cup RequestErrors \cup {"HTTPError"} :
          /\ calls' = Called(p, Call("PUT connection", name, res, NoVersion))
          /\ IF res = "ok"
             THEN /\ conn' = Upsert(conn, [name |-> name, target |-> mcp_endpoint[p]])
                  /\ out' = Printed(p, <<Line("Project connection created", name, NoVersion)>>)
                  /\ pc' = Set(pc, p, "step4")
                  /\ UNCHANGED <<ret, ks, kb>>
             ELSE /\ conn' = conn
                  /\ kb' = Remove(kb, kb_name(args[p].agent_name))
                  /\ ks' = Remove(ks, ks_name(args[p].agent_name))
                  /\ Raise(p, ExcType(res), ExcText(args[p].agent_name, res), <<>>)
    /\ UNCHANGED <<agents, issued, versions_returned, runs, kind, args, del,
                   mcp_endpoint, agent>>

\* Step 3: builder.create_project_connection(conn_name, mcp_endpoint).
\* The token fetch or the transport may raise before any response; a
\* non-2xx response is turned into an HTTPError by raise_for_status().
CreateProjectConnection(p) ==
    /\ UNCHANGED <<basic, evalv>>
    /\ pc[p] = "step3"
    /\ LET name == conn_name(args[p].agent_name) IN
       \E res \in UpsertResults(conn, name, StepFaults("step3")) :
          /\ calls' = Called(p, Call("PUT connection", name, res, NoVersion))
          /\ IF res = "ok"
             THEN /\ conn' = Upsert(conn, [name |-> name, target |-> mcp_endpoint[p]])
                  /\ out' = Printed(p, <<Line("Project connection created", name, NoVersion)>>)
                  /\ pc' = Set(pc, p, "step4")
                  /\ UNCHANGED ret
             ELSE /\ conn' = conn
                  /\ Raise(p, ExcType(res), ExcText(args[p].agent_name, res), <<>>)
    /\ UNCHANGED <<ks, kb, agents, issued, versions_returned, runs, kind, args, del,
                   mcp_endpoint, agent>>

\* Step 4: agent = builder.create_agent(args.agent_name, mcp_endpoint, conn_name, ...)
CreateAgent(p) ==
    /\ UNCHANGED <<basic, evalv>>
    /\ pc[p] = "step4"
    /\ LET A == args[p].agent_name
           v == NextVersion(A) IN
       \E res \in {"ok"} \cup StepFaults("step4") :
          IF res = "ok"
          THEN /\ calls' = Called(p, Call("create_version", A, res, v))
               /\ issued' = [issued EXCEPT ![A] = v]
               /\ versions_returned' = [versions_returned EXCEPT ![A] = Append(@, v)]
               /\ agents' = agents \cup {[name |-> A, version |-> v,
                                           server_url |-> mcp_endpoint[p],
                                           project_connection_id |-> conn_name(A)]}
               /\ agent' = Set(agent, p, v)
               /\ out' = Printed(p, <<Line("Agent created", A, v)>>)
               /\ pc' = Set(pc, p, IF args[p].test_query THEN "test_query" ELSE "ready")
               /\ UNCHANGED ret
          ELSE /\ calls' = Called(p, Call("create_version", A, res, NoVersion))
               /\ UNCHANGED <<issued, versions_returned, agents, agent>>
               /\ Raise(p, ExcType(res), ExcText(A, res), <<>>)
    /\ UNCHANGED <<ks, kb, conn, runs, kind, args, del, mcp_endpoint>>

\* the cleanup in a `finally`: a failed test query is reported and the
\* resources are deleted all the same
TestQuery_finally(p) ==
    /\ UNCHANGED <<basic, evalv>>
    /\ pc[p] = "test_query"
    /\ LET name == kb_name(args[p].agent_name)
           A == args[p].agent_name
           testing == <<Line("Testing knowledge base", name, NoVersion)>> IN
       \E res \in {"ok", "empty"} \cup SdkErrors :
          /\ calls' = Called(p, Call("retrieve", name, res, NoVersion))
          /\ IF res = "ok"
             THEN /\ out' = Printed(p, testing \o <<Line("Response", name, NoVersion)>>)
                  /\ pc' = Set(pc, p, "ready")
                  /\ UNCHANGED <<ret, del>>
             ELSE IF args[p].cleanup
                  THEN /\ out' = Printed(p, testing \o <<Line("Error", res, NoVersion)>>)
                       /\ del' = Set(del, p, [agent_name |-> A, agent_version |-> agent[p],
                                              connection_name |-> conn_name(A),
                                              kb_name |-> kb_name(A), ks_name |-> ks_name(A)])
                       /\ pc' = Set(pc, p, DeleteOrder[1])
                       /\ UNCHANGED ret
                  ELSE /\ Raise(p, "Exception", res, testing)
                       /\ UNCHANGED del
    /\ UNCHANGED <<backend, runs, kind, args, mcp_endpoint, agent>>

\* Optional test query: builder.query_knowledge_base(kb_name, ks_name, ...) and
\* result.response[0].content[0].text, an IndexError when there is no message
TestQuery(p) ==
    /\ UNCHANGED <<basic, evalv>>
    /\ pc[p] = "test_query"
    /\ LET name == kb_name(args[p].agent_name)
           testing == <<Line("Testing knowledge base", name, NoVersion)>> IN
       \E res \in {"ok", "empty"} \cup SdkErrors :
          /\ calls' = Called(p, Call("retrieve", name, res, NoVersion))
          /\ IF res = "ok"
             THEN /\ out' = Printed(p, testing \o <<Line("Response", name, NoVersion)>>)
                  /\ pc' = Set(pc, p, "ready")
                  /\ UNCHANGED ret
             ELSE Raise(p, "Exception", IF res = "empty" THEN "IndexError" ELSE res, testing)
    /\ UNCHANGED <<backend, runs, kind, args, del, mcp_endpoint, agent>>

\* the cleanup call with kb_name passed twice
Ready_kbtwice(p) ==
    /\ UNCHANGED <<basic, evalv>>
    /\ pc[p] = "ready"
    /\ LET A == args[p].agent_name
           ready == <<Line("Agent is ready", A, NoVersion),
                      Line("MCP Endpoint", mcp_endpoint[p], NoVersion)>> IN
       IF args[p].cleanup
       THEN /\ out' = Printed(p, ready \o <<Line("Cleaning up...", None, NoVersion)>>)
            /\ del' = Set(del, p, [agent_name |-> A, agent_version |-> agent[p],
                                   connection_name |-> conn_name(A),
                                   kb_name |-> kb_name(A), ks_name |-> kb_name(A)])
            /\ pc' = Set(pc, p, DeleteOrder[1])
            /\ UNCHANGED ret
       ELSE /\ out' = Printed(p, ready)
            /\ ret' = Set(ret, p, "0")
            /\ pc' = Set(pc, p, "done")
            /\ UNCHANGED del
    /\ UNCHANGED <<backend, runs, kind, args, mcp_endpoint, agent, calls>>

\* main: the "is ready" report, then either return 0 or enter
\* builder.delete_resources(args.agent_name, agent.version, conn_name, kb_name, ks_name)
Ready(p) ==
    /\ UNCHANGED <<basic, evalv>>
    /\ pc[p] = "ready"
    /\ LET A == args[p].agent_name
           ready == <<Line("Agent is ready", A, NoVersion),
                      Line("MCP Endpoint", mcp_endpoint[p], NoVersion)>> IN
       IF args[p].cleanup
       THEN /\ out' = Printed(p, ready \o <<Line("Cleaning up...", None, NoVersion)>>)
            /\ del' = Set(del, p, [agent_name |-> A, agent_version |-> agent[p],
                                   connection_name |-> conn_name(A),
                                   kb_name |-> kb_name(A), ks_name |-> ks_name(A)])
            /\ pc' = Set(pc, p, DeleteOrder[1])
            /\ UNCHANGED ret
       ELSE /\ out' = Printed(p, ready)
            /\ ret' = Set(ret, p, "0")
            /\ pc' = Set(pc, p, "done")
            /\ UNCHANGED del
    /\ UNCHANGED <<backend, runs, kind, args, mcp_endpoint, agent, calls>>

\* ------------------------------------------------------- delete_resources
\* A direct call of builder.delete_resources by a caller that derives the
\* names from the agent name and selects what to delete
StartDeleteResources(p) ==
    /\ UNCHANGED <<basic, evalv>>
    /\ p = MainProc
    /\ \A q \in Procs : Terminated(q)
    /\ runs < MaxRuns
    /\ runs' = runs + 1
    /\ \E A \in AgentNames :
       \E v \in {NoVersion} \cup 1..issued[A],
          cn \in {None, conn_name(A)}, kn \in {None, kb_name(A)}, sn \in {None, ks_name(A)} :
          del' = Set(del, p, [agent_name |-> A, agent_version |-> v,
                              connection_name |-> cn, kb_name |-> kn, ks_name |-> sn])
    /\ kind' = Set(kind, p, "delete_resources")
    /\ pc' = Set(pc, p, DeleteOrder[1])
    /\ args' = Set(args, p, NoArgs)
    /\ mcp_endpoint' = Set(mcp_endpoint, p, None)
    /\ agent' = Set(agent, p, NoVersion)
    /\ ret' = Set(ret, p, "")
    /\ out' = Set(out, p, <<>>)
    /\ calls' = Set(calls, p, <<>>)
    /\ UNCHANGED backend

\* if agent_name and agent_version: project_client.agents.delete_version(...)
DeleteAgentVersion(p) ==
    /\ UNCHANGED <<basic, evalv>>
    /\ pc[p] = "del_agent"
    /\ LET A == del[p].agent_name
           v == del[p].agent_version IN
       IF A # None /\ v # NoVersion
       THEN \E res \in DeleteResults(\E a \in agents : a.name = A /\ a.version = v, SdkErrors) :
               /\ calls' = Called(p, Call("delete_version", A, res, v))
               /\ IF res = "ok"
                  THEN /\ agents' = RemoveVersion(agents, A, v)
                       /\ out' = Printed(p, <<Line("Agent version deleted", A, v)>>)
                       /\ Continue(p, "del_agent")
                  ELSE /\ agents' = agents
                       /\ Raise(p, "Exception", res, <<>>)
       ELSE /\ Continue(p, "del_agent")
            /\ UNCHANGED <<agents, calls, out>>
    /\ UNCHANGED <<ks, kb, conn, issued, versions_returned, runs, kind, args, del,
                   mcp_endpoint, agent>>

\* if connection_name: requests.delete(...).  The response is not inspected:
\* whatever its status, the method prints the line and goes on.  Only an
\* exception of the token fetch or the transport leaves the method.
DeleteConnection(p) ==
    /\ UNCHANGED <<basic, evalv>>
    /\ pc[p] = "del_conn"
    /\ LET name == del[p].connection_name IN
       IF name # None
       THEN \E res \in {"ok", "non-2xx"} \cup RequestErrors :
               /\ calls' = Called(p, Call("DELETE connection", name, res, NoVersion))
               /\ IF res \in RequestErrors
                  THEN /\ conn' = conn
                       /\ Raise(p, "Exception", res, <<>>)
                  ELSE /\ conn' = IF res = "ok" THEN Remove(conn, name) ELSE conn
                       /\ out' = Printed(p, <<Line("Connection deleted", name, NoVersion)>>)
                       /\ Continue(p, "del_conn")
       ELSE /\ Continue(p, "del_conn")
            /\ UNCHANGED <<conn, calls, out>>
    /\ UNCHANGED <<ks, kb, agents, issued, versions_returned, runs, kind, args, del,
                   mcp_endpoint, agent>>

\* if kb_name: index_client.delete_knowledge_base(kb_name)
DeleteKnowledgeBase(p) ==
    /\ UNCHANGED <<basic, evalv>>
    /\ pc[p] = "del_kb"
    /\ LET name == del[p].kb_name IN
       IF name # None
       THEN \E res \in DeleteResults(name \in Names(kb), SdkErrors) :
               /\ calls' = Called(p, Call("delete_knowledge_base", name, res, NoVersion))
               /\ IF res = "ok"
                  THEN /\ kb' = Remove(kb, name)
                       /\ out' = Printed(p, <<Line("Knowledge base deleted", name, NoVersion)>>)
                       /\ Continue(p, "del_kb")
                  ELSE /\ kb' = kb
                       /\ Raise(p, "Exception", res, <<>>)
       ELSE /\ Continue(p, "del_kb")
            /\ UNCHANGED <<kb, calls, out>>
    /\ UNCHANGED <<ks, conn, agents, issued, versions_returned, runs, kind, args, del,
                   mcp_endpoint, agent>>

\* if ks_name: index_client.delete_knowledge_source(ks_name); then return
DeleteKnowledgeSource(p) ==
    /\ UNCHANGED <<basic, evalv>>
    /\ pc[p] = "del_ks"
    /\ LET name == del[p].ks_name IN
       IF name # None
       THEN \E res \in DeleteResults(name \in Names(ks), SdkErrors) :
               /\ calls' = Called(p, Call("delete_knowledge_source", name, res, NoVersion))
               /\ IF res = "ok"
                  THEN /\ ks' = Remove(ks, name)
                       /\ out' = Printed(p, <<Line("Knowledge source deleted", name, NoVersion)>>)
                       /\ Continue(p, "del_ks")
                  ELSE /\ ks' = ks
                       /\ Raise(p, "Exception", res, <<>>)
       ELSE /\ Continue(p, "del_ks")
            /\ UNCHANGED <<ks, calls, out>>
    /\ UNCHANGED <<kb, conn, agents, issued, versions_returned, runs, kind, args, del,
                   mcp_endpoint, agent>>

\* ------------------------------------------------------------- behaviours
Next ==
    \E p \in Procs :
        \/ StartMain(p)
        \/ Validate(p)
        \/ CreateKnowledgeSource(p)
        \/ CreateKnowledgeBase(p)
        \/ CreateProjectConnection(p)
        \/ CreateAgent(p)
        \/ TestQuery(p)
        \/ Ready(p)
        \/ StartDeleteResources(p)
        \/ DeleteAgentVersion(p)
        \/ DeleteConnection(p)
        \/ DeleteKnowledgeBase(p)
        \/ DeleteKnowledgeSource(p)

Spec == Init /\ [][Next]_vars

\* the same program with its --reasoning and --source-fields inputs varied,
\* and with the knowledge-source adapter as a second entry point
NextInputs ==
    \E p \in Procs :
        \/ StartMainInputs(p)
        \/ StartCreateKnowledgeSource(p)
        \/ Validate(p)
        \/ CreateKnowledgeSource(p)
        \/ CreateKnowledgeBase(p)
        \/ CreateProjectConnection(p)
        \/ CreateAgent(p)
        \/ TestQuery(p)
        \/ Ready(p)
        \/ DeleteAgentVersion(p)
        \/ DeleteConnection(p)
        \/ DeleteKnowledgeBase(p)
        \/ DeleteKnowledgeSource(p)

SpecInputs == Init /\ [][NextInputs]_vars

\* CLI invocations of different agent names running at the same time, their
\* backend requests interleaved in any order
NextConc ==
    \E p \in Procs :
        \/ StartConc(p)
        \/ Validate(p)
        \/ CreateKnowledgeSource(p)
        \/ CreateKnowledgeBase(p)
        \/ CreateProjectConnection(p)
        \/ CreateAgent(p)
        \/ Ready(p)
        \/ DeleteAgentVersion(p)
        \/ DeleteConnection(p)
        \/ DeleteKnowledgeBase(p)
        \/ DeleteKnowledgeSource(p)

SpecConc == Init /\ [][NextConc]_vars

\* ------------------------------------------------- tests/basic_agent.py
\* the statuses a processed run may end in
RunStatuses == {"completed", "failed", "cancelled"}

BasicCall(op, id, result) == [op |-> op, id |-> id, result |-> result]
BasicCalled(c) == Append(basic_calls, c)

\* an exception raised inside the try block: control goes to the finally clause
BasicRaise(exc) ==
    /\ basic_exc' = exc
    /\ basic_pc' = "finally"

\* python basic_agent.py: the client is built before the try block; a
\* missing PROJECT_ENDPOINT raises KeyError out of main right there
BasicStart ==
    /\ basic_pc \in {"idle", "exited"}
    /\ basic_runs < MaxBasicRuns
    /\ basic_runs' = basic_runs + 1
    /\ basic_agent' = NoAgent
    /\ basic_calls' = <<>>
    /\ basic_out' = <<>>
    /\ \E env \in {"ok", "KeyError"} :
          IF env = "ok"
          THEN basic_pc' = "create_agent" /\ basic_exc' = None
          ELSE basic_pc' = "exited" /\ basic_exc' = env
    /\ UNCHANGED <<basic_store, basic_ids, foundry, evalv>>

\* 1. agent = client.create_agent(model=os.environ["MODEL_DEPLOYMENT_NAME"], ...):
\* the lookup may raise KeyError before the request is made
BasicCreateAgent ==
    /\ basic_pc = "create_agent"
    /\ \E res \in {"ok", "KeyError"} \cup SdkErrors :
          CASE res = "ok" ->
                 /\ basic_ids' = basic_ids + 1
                 /\ basic_store' = basic_store \cup {basic_ids + 1}
                 /\ basic_agent' = basic_ids + 1
                 /\ basic_calls' = BasicCalled(BasicCall("create_agent", basic_ids + 1, res))
                 /\ basic_out' = Append(basic_out, Line("Created agent", None, basic_ids + 1))
                 /\ basic_pc' = "threads.create"
                 /\ UNCHANGED basic_exc
            [] res = "KeyError" ->
                 /\ BasicRaise(res)
                 /\ UNCHANGED <<basic_ids, basic_store, basic_agent, basic_calls, basic_out>>
            [] OTHER ->
                 /\ basic_calls' = BasicCalled(BasicCall("create_agent", NoAgent, res))
                 /\ BasicRaise(res)
                 /\ UNCHANGED <<basic_ids, basic_store, basic_agent, basic_out>>
    /\ UNCHANGED <<basic_runs, foundry, evalv>>

\* 2. thread = client.threads.create()
BasicThreadsCreate ==
    /\ basic_pc = "threads.create"
    /\ \E res \in {"ok"} \cup SdkErrors :
          /\ basic_calls' = BasicCalled(BasicCall("threads.create", NoAgent, res))
          /\ IF res = "ok"
             THEN /\ basic_out' = Append(basic_out, Line("Created thread", None, NoVersion))
                  /\ basic_pc' = "messages.create"
                  /\ UNCHANGED basic_exc
             ELSE /\ BasicRaise(res)
                  /\ UNCHANGED basic_out
    /\ UNCHANGED <<basic_agent, basic_store, basic_ids, basic_runs, foundry, evalv>>

\* 3. client.messages.create(thread_id=thread.id, role="user", ...)
BasicMessagesCreate ==
    /\ basic_pc = "messages.create"
    /\ \E res \in {"ok"} \cup SdkErrors :
          /\ basic_calls' = BasicCalled(BasicCall("messages.create", NoAgent, res))
          /\ IF res = "ok"
             THEN basic_pc' = "runs.create_and_process" /\ UNCHANGED basic_exc
             ELSE BasicRaise(res)
    /\ UNCHANGED <<basic_agent, basic_out, basic_store, basic_ids, basic_runs, foundry, evalv>>

\* 4. run = client.runs.create_and_process(thread_id=..., agent_id=agent.id);
\* only a completed run goes on to list the messages
BasicCreateAndProcess ==
    /\ basic_pc = "runs.create_and_process"
    /\ \E res \in RunStatuses \cup SdkErrors :
          /\ basic_calls' = BasicCalled(BasicCall("runs.create_and_process", basic_agent, res))
          /\ IF res \in SdkErrors
             THEN /\ BasicRaise(res)
                  /\ UNCHANGED basic_out
             ELSE /\ basic_out' = basic_out \o <<Line("Run status", res, NoVersion)>>
                        \o (IF res = "failed" THEN <<Line("Run failed", None, NoVersion)>>
                            ELSE <<>>)
                  /\ basic_pc' = IF res = "completed" THEN "messages.list" ELSE "finally"
                  /\ UNCHANGED basic_exc
    /\ UNCHANGED <<basic_agent, basic_store, basic_ids, basic_runs, foundry, evalv>>

\* 5. messages = client.messages.list(...) and the loop over them;
\* msg.content[0] of an assistant message without content is an IndexError
BasicMessagesList ==
    /\ basic_pc = "messages.list"
    /\ \E res \in {"ok", "IndexError"} \cup SdkErrors :
          /\ basic_calls' = BasicCalled(BasicCall("messages.list", NoAgent,
                                                  IF res = "IndexError" THEN "ok" ELSE res))
          /\ IF res = "ok"
             THEN /\ basic_out' = Append(basic_out, Line("Assistant", None, NoVersion))
                  /\ basic_pc' = "finally"
                  /\ UNCHANGED basic_exc
             ELSE /\ BasicRaise(res)
                  /\ UNCHANGED basic_out
    /\ UNCHANGED <<basic_agent, basic_store, basic_ids, basic_runs, foundry, evalv>>

\* the cleanup as the last statement of the try block: an exception skips it
BasicFinally_intry ==
    /\ basic_pc = "finally"
    /\ IF basic_agent # NoAgent /\ basic_exc = None
       THEN \E res \in {"ok"} \cup SdkErrors :
               /\ basic_calls' = BasicCalled(BasicCall("delete_agent", basic_agent, res))
               /\ IF res = "ok"
                  THEN /\ basic_store' = basic_store \ {basic_agent}
                       /\ basic_out' = Append(basic_out, Line("Deleted agent", None, basic_agent))
                       /\ UNCHANGED basic_exc
                  ELSE /\ basic_exc' = res
                       /\ UNCHANGED <<basic_store, basic_out>>
       ELSE UNCHANGED <<basic_calls, basic_store, basic_out, basic_exc>>
    /\ basic_pc' = "exited"
    /\ UNCHANGED <<basic_agent, basic_ids, basic_runs, foundry, evalv>>

\* finally: if agent: client.delete_agent(agent.id); then main returns, or
\* the exception in flight (or the one delete_agent raised) leaves main
BasicFinally ==
    /\ basic_pc = "finally"
    /\ IF basic_agent # NoAgent
       THEN \E res \in {"ok"} \cup SdkErrors :
               /\ basic_calls' = BasicCalled(BasicCall("delete_agent", basic_agent, res))
               /\ IF res = "ok"
                  THEN /\ basic_store' = basic_store \ {basic_agent}
                       /\ basic_out' = Append(basic_out, Line("Deleted agent", None, basic_agent))
                       /\ UNCHANGED basic_exc
                  ELSE /\ basic_exc' = res
                       /\ UNCHANGED <<basic_store, basic_out>>
       ELSE UNCHANGED <<basic_calls, basic_store, basic_out, basic_exc>>
    /\ basic_pc' = "exited"
    /\ UNCHANGED <<basic_agent, basic_ids, basic_runs, foundry, evalv>>

NextBasic ==
    \/ BasicStart
    \/ BasicCreateAgent
    \/ BasicThreadsCreate
    \/ BasicMessagesCreate
    \/ BasicCreateAndProcess
    \/ BasicMessagesList
    \/ BasicFinally

SpecBasic == Init /\ [][NextBasic]_vars

\* ------------------------------------------- scripts/run_batch_evaluation.py
QUALITY_EVALUATORS == <<"groundedness", "groundedness_pro", "relevance", "coherence",
                        "fluency", "similarity", "retrieval">>
NLP_EVALUATORS == <<"f1", "rouge", "bleu", "gleu", "meteor">>
SAFETY_EVALUATORS == <<"violence", "sexual", "self_harm", "hate_unfairness",
                       "code_vulnerability", "ungrounded_attributes">>
AGENT_EVALUATORS == <<"intent_resolution", "response_completeness", "task_adherence",
                      "tool_call_accuracy">>
COMPOSITE_EVALUATORS == <<"qa", "content_safety">>

Elems(seq) == {seq[i] : i \in DOMAIN seq}

\* the names an evaluator list is drawn from: every documented name and one
\* that is none of them
EvaluatorNames ==
    Elems(QUALITY_EVALUATORS) \cup Elems(NLP_EVALUATORS) \cup Elems(SAFETY_EVALUATORS)
        \cup Elems(AGENT_EVALUATORS) \cup Elems(COMPOSITE_EVALUATORS) \cup {"unknown"}
NameLists(n) == UNION {[1..k -> EvaluatorNames] : k \in 0..n}

quality_map ==
    ("groundedness" :> "GroundednessEvaluator") @@ ("relevance" :> "RelevanceEvaluator")
        @@ ("coherence" :> "CoherenceEvaluator") @@ ("fluency" :> "FluencyEvaluator")
        @@ ("similarity" :> "SimilarityEvaluator") @@ ("retrieval" :> "RetrievalEvaluator")
agent_map ==
    ("intent_resolution" :> "IntentResolutionEvaluator")
        @@ ("response_completeness" :> "ResponseCompletenessEvaluator")
        @@ ("task_adherence" :> "TaskAdherenceEvaluator")
        @@ ("tool_call_accuracy" :> "ToolCallAccuracyEvaluator")
nlp_map ==
    ("f1" :> "F1ScoreEvaluator") @@ ("rouge" :> "RougeScoreEvaluator")
        @@ ("bleu" :> "BleuScoreEvaluator") @@ ("gleu" :> "GleuScoreEvaluator")
        @@ ("meteor" :> "MeteorScoreEvaluator")
\* a lookup table that has no entry for the composite safety evaluator
safety_map_nocomposite ==
    ("violence" :> "ViolenceEvaluator") @@ ("sexual" :> "SexualEvaluator")
        @@ ("self_harm" :> "SelfHarmEvaluator")
        @@ ("hate_unfairness" :> "HateUnfairnessEvaluator")
        @@ ("code_vulnerability" :> "CodeVulnerabilityEvaluator")
        @@ ("ungrounded_attributes" :> "UngroundedAttributesEvaluator")
safety_map ==
    ("violence" :> "ViolenceEvaluator") @@ ("sexual" :> "SexualEvaluator")
        @@ ("self_harm" :> "SelfHarmEvaluator")
        @@ ("hate_unfairness" :> "HateUnfairnessEvaluator")
        @@ ("content_safety" :> "ContentSafetyEvaluator")
        @@ ("code_vulnerability" :> "CodeVulnerabilityEvaluator")
        @@ ("ungrounded_attributes" :> "UngroundedAttributesEvaluator")

\* an evaluator instance: its class and the arguments it was built with
Instance(class, config, is_reasoning_model) ==
    [class |-> class, config |-> config, is_reasoning_model |-> is_reasoning_model]

\* build_safety_evaluator: safety_map[name](azure_ai_project=project_scope);
\* when the table has no entry for the name the lookup raises KeyError,
\* written here as an instance of class "KeyError"
build_safety_evaluator(name) ==
    Instance(IF name \in DOMAIN safety_map THEN safety_map[name] ELSE "KeyError",
             "azure_ai_project", FALSE)

\* evaluators[name] = instance: a second assignment replaces the first
Assign(st, name, instance) == [st EXCEPT !.evaluators = (name :> instance) @@ @]
Warn(st, tag, name) == [st EXCEPT !.out = Append(@, Line(tag, name, NoVersion))]

\* one iteration of the loop `for name in evaluator_names`; an exception
\* raised by an earlier iteration has ended the loop
build_step(st, name, project_scope, is_reasoning_model) ==
    IF st.error # None THEN st
    ELSE IF name \in DOMAIN quality_map
    THEN Assign(st, name, Instance(quality_map[name], "model_config", is_reasoning_model))
    ELSE IF name = "groundedness_pro"
    THEN IF ~project_scope
         THEN Warn(st, "Warning: Skipping - requires Azure AI project config", name)
         ELSE Assign(st, name, Instance("GroundednessProEvaluator", "azure_ai_project", FALSE))
    ELSE IF name \in DOMAIN agent_map
    THEN Assign(st, name, Instance(agent_map[name], "model_config", FALSE))
    ELSE IF name \in DOMAIN nlp_map
    THEN Assign(st, name, Instance(nlp_map[name], None, FALSE))
    ELSE IF name = "qa"
    THEN Assign(st, name, Instance("QAEvaluator", "model_config", FALSE))
    ELSE IF name \in Elems(SAFETY_EVALUATORS) \/ name = "content_safety"
    THEN IF ~project_scope
         THEN Warn(st, "Warning: Skipping - requires Azure AI project config", name)
         ELSE LET passed == [st EXCEPT !.passed = Append(@, name)] IN
              IF build_safety_evaluator(name).class = "KeyError"
              THEN [passed EXCEPT !.error = "KeyError"]
              ELSE Assign(passed, name, build_safety_evaluator(name))
    ELSE Warn(st, "Warning: Unknown evaluator, skipping", name)

RECURSIVE build_loop(_, _, _, _)
build_loop(evaluator_names, n, project_scope, is_reasoning_model) ==
    IF n = 0
    THEN [evaluators |-> <<>>, passed |-> <<>>, out |-> <<>>, error |-> None]
    ELSE build_step(build_loop(evaluator_names, n - 1, project_scope, is_reasoning_model),
                    evaluator_names[n], project_scope, is_reasoning_model)

\* build_evaluators(evaluator_names, model_config, project_scope, is_reasoning_model)
build_evaluators(evaluator_names, project_scope, is_reasoning_model) ==
    build_loop(evaluator_names, Len(evaluator_names), project_scope, is_reasoning_model)

\* a direct call build_evaluators(names, model_config, project_scope, flag)
StartBuildEvaluators ==
    /\ eval_pc = "idle"
    /\ \E names \in NameLists(MaxNames), scope \in BOOLEAN, r \in BOOLEAN :
          /\ eval_names' = names
          /\ eval_args' = [NoEvalArgs EXCEPT !.project_scope = scope, !.reasoning_model = r]
    /\ eval_kind' = "build_evaluators"
    /\ eval_pc' = "build_evaluators"
    /\ eval_evaluators' = <<>>
    /\ eval_passed' = <<>>
    /\ eval_ret' = ""
    /\ eval_out' = <<>>
    /\ eval_evaluate' = 0
    /\ eval_written' = FALSE
    /\ UNCHANGED <<foundry, basic>>

\* evaluators = build_evaluators(...).  An exception out of it is caught
\* nowhere: a direct caller gets it, main dies with a traceback and status 1.
BuildEvaluators ==
    /\ eval_pc = "build_evaluators"
    /\ LET st == build_evaluators(eval_names, eval_args.project_scope,
                                  eval_args.reasoning_model) IN
       /\ eval_evaluators' = st.evaluators
       /\ eval_passed' = st.passed
       /\ eval_out' = eval_out \o st.out
       /\ IF st.error # None
          THEN /\ eval_pc' = IF eval_kind = "main" THEN "exited" ELSE "raised"
               /\ eval_ret' = IF eval_kind = "main" THEN "1" ELSE st.error
          ELSE /\ eval_pc' = IF eval_kind = "main" THEN "check_evaluators" ELSE "returned"
               /\ eval_ret' = IF eval_kind = "main" THEN "" ELSE "returned"
    /\ UNCHANGED <<eval_kind, eval_args, eval_names, eval_evaluate, eval_written,
                   foundry, basic>>

NextBuild ==
    \/ StartBuildEvaluators
    \/ BuildEvaluators

SpecBuild == Init /\ [][NextBuild]_vars

\* the --evaluators arguments of the CLI runs: the flag left out (<<>>, the
\* parser then supplies its default), or one of these lists
EvaluatorArgs == {<<>>, <<"unknown">>, <<"violence">>, <<"f1", "f1">>,
                  <<"groundedness_pro", "content_safety">>, <<"qa", "unknown">>}

\* --evaluators default
parse_evaluators(given) ==
    IF given = <<>> THEN <<"groundedness", "relevance", "coherence">> ELSE given

EvalExit(code, lines) ==
    /\ eval_out' = eval_out \o lines
    /\ eval_ret' = code
    /\ eval_pc' = "exited"

\* python run_batch_evaluation.py ...: args = parser.parse_args().  --data is
\* required: without it argparse prints its usage error and exits with 2.
StartEvalMain ==
    /\ eval_pc = "idle"
    /\ \E given \in BOOLEAN, exists \in BOOLEAN, e \in EvaluatorArgs, sf \in BOOLEAN,
          ag \in BOOLEAN, r \in BOOLEAN, o \in BOOLEAN, ep \in BOOLEAN, scope \in BOOLEAN :
          /\ eval_args' = [data_given |-> given, data_exists |-> given /\ exists,
                           evaluators |-> parse_evaluators(e), safety |-> sf, agent |-> ag,
                           reasoning_model |-> r, output |-> o, endpoint |-> ep,
                           project_scope |-> scope]
          /\ IF given
             THEN /\ eval_pc' = "check_data"
                  /\ eval_ret' = ""
                  /\ eval_out' = <<>>
             ELSE /\ eval_pc' = "exited"
                  /\ eval_ret' = "2"
                  /\ eval_out' = <<Line("error: the following arguments are required",
                                        "--data", NoVersion)>>
    /\ eval_kind' = "main"
    /\ eval_names' = <<>>
    /\ eval_evaluators' = <<>>
    /\ eval_passed' = <<>>
    /\ eval_evaluate' = 0
    /\ eval_written' = FALSE
    /\ UNCHANGED <<foundry, basic>>

\* if not data_path.exists(): print(...); sys.exit(1)
CheckData ==
    /\ eval_pc = "check_data"
    /\ IF eval_args.data_exists
       THEN /\ eval_pc' = "get_model_config"
            /\ UNCHANGED <<eval_out, eval_ret>>
       ELSE EvalExit("1", <<Line("Error: Data file not found", None, NoVersion)>>)
    /\ UNCHANGED <<eval_kind, eval_args, eval_names, eval_evaluators, eval_passed,
                   eval_evaluate, eval_written, foundry, basic>>

\* get_model_config(): a ValueError when AZURE_OPENAI_ENDPOINT is unset or
\* empty, which main reports before sys.exit(1).  Then the project scope,
\* the tags and evaluator_names = list(args.evaluators) [+ SAFETY_EVALUATORS]
\* [+ AGENT_EVALUATORS]
GetModelConfig ==
    /\ eval_pc = "get_model_config"
    /\ IF eval_args.endpoint
       THEN /\ eval_names' = eval_args.evaluators
                                \o (IF eval_args.safety THEN SAFETY_EVALUATORS ELSE <<>>)
                                \o (IF eval_args.agent THEN AGENT_EVALUATORS ELSE <<>>)
            /\ eval_pc' = "build_evaluators"
            /\ UNCHANGED <<eval_out, eval_ret>>
       ELSE /\ EvalExit("1", <<Line("Error",
                                    "AZURE_OPENAI_ENDPOINT environment variable required",
                                    NoVersion)>>)
            /\ UNCHANGED eval_names
    /\ UNCHANGED <<eval_kind, eval_args, eval_evaluators, eval_passed,
                   eval_evaluate, eval_written, foundry, basic>>

\* the evaluation is started whether or not an evaluator was built
CheckEvaluators_lax ==
    /\ eval_pc = "check_evaluators"
    /\ eval_pc' = "run_evaluation"
    /\ eval_out' = eval_out \o <<Line("Running evaluation with", None, NoVersion)>>
    /\ UNCHANGED <<eval_ret, eval_kind, eval_args, eval_names, eval_evaluators, eval_passed,
                   eval_evaluate, eval_written, foundry, basic>>

\* if not evaluators: print("Error: No valid evaluators configured"); sys.exit(1)
CheckEvaluators ==
    /\ eval_pc = "check_evaluators"
    /\ IF DOMAIN eval_evaluators = {}
       THEN EvalExit("1", <<Line("Error: No valid evaluators configured", None, NoVersion)>>)
       ELSE /\ eval_pc' = "run_evaluation"
            /\ eval_out' = eval_out \o <<Line("Running evaluation with", None, NoVersion)>>
            /\ UNCHANGED eval_ret
    /\ UNCHANGED <<eval_kind, eval_args, eval_names, eval_evaluators, eval_passed,
                   eval_evaluate, eval_written, foundry, basic>>

\* result = run_evaluation(...): one evaluate(**kwargs) call; any exception
\* is reported and the run exits with 1
RunEvaluation ==
    /\ eval_pc = "run_evaluation"
    /\ eval_evaluate' = eval_evaluate + 1
    /\ \E res \in {"ok", "Exception"} :
          IF res = "ok"
          THEN /\ eval_pc' = "output"
               /\ UNCHANGED <<eval_out, eval_ret>>
          ELSE EvalExit("1", <<Line("Error during evaluation", res, NoVersion)>>)
    /\ UNCHANGED <<eval_kind, eval_args, eval_names, eval_evaluators, eval_passed,
                   eval_written, foundry, basic>>

\* the results are printed and, if --output was given, written to the file;
\* open() may fail, and the uncaught OSError ends the run with status 1
OutputResults ==
    /\ eval_pc = "output"
    /\ LET results == <<Line("=== Evaluation Results ===", None, NoVersion)>> IN
       IF eval_args.output
       THEN \E res \in {"ok", "OSError"} :
               IF res = "ok"
               THEN /\ eval_written' = TRUE
                    /\ EvalExit("0", results \o <<Line("Results saved to", None, NoVersion),
                                                  Line("Evaluation complete!", None, NoVersion)>>)
               ELSE /\ eval_written' = FALSE
                    /\ EvalExit("1", results)
       ELSE /\ eval_written' = FALSE
            /\ EvalExit("0", results \o <<Line("Evaluation complete!", None, NoVersion)>>)
    /\ UNCHANGED <<eval_kind, eval_args, eval_names, eval_evaluators, eval_passed,
                   eval_evaluate, foundry, basic>>

NextEval ==
    \/ StartEvalMain
    \/ CheckData
    \/ GetModelConfig
    \/ BuildEvaluators
    \/ CheckEvaluators
    \/ RunEvaluation
    \/ OutputResults

SpecEval == Init /\ [][NextEval]_vars

\* =====================================================================
\* Properties
\* =====================================================================
CreateOps == <<"create_or_update_knowledge_source", "create_or_update_knowledge_base",
               "PUT connection", "create_version">>
DeleteOps == <<"delete_version", "DELETE connection", "delete_knowledge_base",
               "delete_knowledge_source">>
DeletedTags == <<"Agent version deleted", "Connection deleted", "Knowledge base deleted",
                 "Knowledge source deleted">>
Steps == <<"step1", "step2", "step3", "step4">>

IsCreate(c) == \E k \in 1..4 : CreateOps[k] = c.op
IsDelete(c) == \E k \in 1..4 : DeleteOps[k] = c.op
Creates(p) == SelectSeq(calls[p], IsCreate)
Deletes(p) == SelectSeq(calls[p], IsDelete)
DeleteRank(c) == CHOOSE k \in 1..4 : DeleteOps[k] = c.op
OpName(c) == [op |-> c.op, name |-> c.name]

\* the provisioning step whose request failed and ended the run, 0 if none
FailedStep(p) ==
    IF calls[p] # <<>> /\ IsCreate(calls[p][Len(calls[p])])
                       /\ calls[p][Len(calls[p])].result # "ok"
    THEN CHOOSE k \in 1..4 : CreateOps[k] = calls[p][Len(calls[p])].op
    ELSE 0

\* the four requests of a provisioning run for agent name A
ExpectedCreates(A) ==
    << [op |-> "create_or_update_knowledge_source", name |-> "ks-" \o A],
       [op |-> "create_or_update_knowledge_base", name |-> "kb-" \o A],
       [op |-> "PUT connection", name |-> "conn-" \o A],
       [op |-> "create_version", name |-> A] >>

\* <searchEndpoint>/knowledgebases/kb-<agentName>/mcp?api-version=<version>
ExpectedEndpoint(A) ==
    search_endpoint \o "/knowledgebases/kb-" \o A \o "/mcp?api-version=2025-11-01-preview"

\* C1: a provisioning run issues its create/upsert requests in the order
\* ks-A, kb-A (referencing exactly [ks-A]), conn-A, A; each one only after
\* its predecessor succeeded; a run that completes has issued exactly these
\* four and no other.
C1_ProvisionOrder ==
    \A p \in Procs : kind[p] = "main" =>
        LET cs == Creates(p)
            A == args[p].agent_name IN
        /\ Len(cs) <= 4
        /\ \A i \in 1..Len(cs) : OpName(cs[i]) = ExpectedCreates(A)[i]
        /\ \A i \in 1..(Len(cs) - 1) : cs[i].result = "ok"
        /\ (agent[p] # NoVersion \/ ret[p] = "0") =>
               /\ Len(cs) = 4
               /\ cs[4].result = "ok"
        /\ pc[p] \in {"step3", "step4", "test_query", "ready"} =>
               \E x \in kb : x.name = "kb-" \o A /\ x.knowledge_sources = <<"ks-" \o A>>

C1_Witness ==
    \E p \in Procs : kind[p] = "main" /\ ret[p] = "0" /\ Len(Creates(p)) = 4
                     /\ ~args[p].cleanup

\* C2: the connection's target and the agent tool's server URL are the
\* retrieval endpoint of the knowledge base kb-A of the same run, and the
\* tool references the connection conn-A.
C2_EndpointWiring ==
    /\ \A x \in conn : \E A \in AgentNames :
           x.name = "conn-" \o A /\ x.target = ExpectedEndpoint(A)
    /\ \A a \in agents :
           a.server_url = ExpectedEndpoint(a.name)
           /\ a.project_connection_id = "conn-" \o a.name
    /\ \A p \in Procs : kind[p] = "main" =>
        LET A == args[p].agent_name IN
        /\ pc[p] \in {"step4", "test_query", "ready"} =>
              /\ \E y \in kb : y.name = "kb-" \o A
              /\ \E x \in conn : x.name = "conn-" \o A /\ x.target = ExpectedEndpoint(A)
              /\ mcp_endpoint[p] = ExpectedEndpoint(A)
        /\ pc[p] \in {"test_query", "ready"} =>
              \E a \in agents :
                  /\ a.name = A /\ a.version = agent[p]
                  /\ \E x \in conn : x.name = a.project_connection_id
                                     /\ x.target = a.server_url

C2_Witness ==
    \E p \in Procs : kind[p] = "main" /\ pc[p] = "ready" /\ agent[p] # NoVersion

\* C3: a failed provisioning request is the last request of its run, and
\* the run has ended with return value 1.
C3_StopAtFirstFailure ==
    \A p \in Procs : kind[p] = "main" =>
        \A i \in 1..Len(calls[p]) :
            (IsCreate(calls[p][i]) /\ calls[p][i].result # "ok") =>
                /\ i = Len(calls[p])
                /\ pc[p] = "done"
                /\ ret[p] = "1"

C3_Witness ==
    \E p \in Procs : kind[p] = "main" /\ FailedStep(p) = 2 /\ ret[p] = "1"

\* C4: when provisioning step k fails, the run has issued no delete and the
\* resources of steps 1..k-1 exist when it ends.
C4_NoRollback ==
    \A p \in Procs : (kind[p] = "main" /\ FailedStep(p) > 0) =>
        LET k == FailedStep(p)
            A == args[p].agent_name IN
        /\ Deletes(p) = <<>>
        /\ k > 1 => "ks-" \o A \in Names(ks)
        /\ k > 2 => "kb-" \o A \in Names(kb)
        /\ k > 3 => "conn-" \o A \in Names(conn)

C4_Witness ==
    \E p \in Procs : kind[p] = "main" /\ FailedStep(p) = 3 /\ pc[p] = "done"
                     /\ ks_name(args[p].agent_name) \in Names(ks)
                     /\ kb_name(args[p].agent_name) \in Names(kb)

\* the line main's except clause prints when `step` fails with `res`
ErrorReport(A, res) == Line(ExceptTag(ExcType(res)), ExcText(A, res), NoVersion)

\* C5: the failure report of a provisioning run identifies the step that
\* failed: no other step can produce the same report.
C5_ReportIdentifiesStep ==
    \A p \in Procs : (kind[p] = "main" /\ FailedStep(p) > 0) =>
        LET k == FailedStep(p)
            A == args[p].agent_name
            report == out[p][Len(out[p])] IN
        \A k2 \in 1..4 :
            (\E res \in StepFaults(Steps[k2]) : ErrorReport(A, res) = report) => k2 = k

\* the faults that have nothing to do with the resource existing already
KnownFaults == SdkErrors \cup RequestErrors \cup {"HTTPError"}

HasName(store, n) == Cardinality({x \in store : x.name = n})

\* C6: provisioning again for the same agent name never fails on steps 1-3
\* because the resource exists already, leaves exactly one knowledge source,
\* knowledge base and connection of the derived names, and every successful
\* step 4 yields a version distinct from all versions yielded before.
C6_ReprovisionUpserts ==
    /\ \A p \in Procs : \A i \in 1..Len(calls[p]) :
           (IsCreate(calls[p][i]) /\ calls[p][i].result # "ok") =>
               calls[p][i].result \in KnownFaults
    /\ \A p \in Procs : (kind[p] = "main" /\ pc[p] \in {"test_query", "ready"}) =>
           LET A == args[p].agent_name IN
           /\ HasName(ks, "ks-" \o A) = 1
           /\ HasName(kb, "kb-" \o A) = 1
           /\ HasName(conn, "conn-" \o A) = 1
           /\ Cardinality({a \in agents : a.name = A /\ a.version = agent[p]}) = 1
    /\ \A A \in AgentNames :
           \A i, j \in 1..Len(versions_returned[A]) :
               i # j => versions_returned[A][i] # versions_returned[A][j]

\* the second of two provisioning runs for one agent name has completed:
\* its three upserts hit existing resources and step 4 gave a second version
C6_Witness ==
    \E p \in Procs :
        /\ kind[p] = "main" /\ ret[p] = "0" /\ ~args[p].cleanup
        /\ Len(versions_returned[args[p].agent_name]) = 2
        /\ Cardinality({a \in agents : a.name = args[p].agent_name}) = 2

\* the `if` conditions of delete_resources: was deletion number k asked for
Requested(p, k) ==
    CASE k = 1 -> del[p].agent_name # None /\ del[p].agent_version # NoVersion
      [] k = 2 -> del[p].connection_name # None
      [] k = 3 -> del[p].kb_name # None
      [] k = 4 -> del[p].ks_name # None

\* C7: the delete requests of a teardown come in the order agent version,
\* connection, knowledge base, knowledge source; a delete is only issued
\* after every requested delete of an earlier kind was attempted; the agent
\* version is only deleted if a version is given.
C7_TeardownOrder ==
    \A p \in Procs :
        LET ds == Deletes(p) IN
        /\ \A i, j \in 1..Len(ds) : i < j => DeleteRank(ds[i]) < DeleteRank(ds[j])
        /\ \A i \in 1..Len(ds) : \A k \in 1..4 :
               (k < DeleteRank(ds[i]) /\ Requested(p, k)) =>
                   \E j \in 1..(i - 1) : DeleteRank(ds[j]) = k
        /\ del[p].agent_version = NoVersion =>
               \A i \in 1..Len(ds) : DeleteRank(ds[i]) # 1

C7_Witness ==
    \E p \in Procs : Len(Deletes(p)) = 4 /\ del[p].agent_version # NoVersion

\* a teardown was entered and has ended
TeardownEnded(p) == pc[p] \in {"done", "returned", "raised"} /\ del[p] # NoDel

\* C8: when a teardown has ended, every deletion that was asked for has
\* been attempted, whichever of them failed.
C8_BestEffort ==
    \A p \in Procs : TeardownEnded(p) =>
        \A k \in 1..4 : Requested(p, k) =>
            \E i \in 1..Len(calls[p]) : calls[p][i].op = DeleteOps[k]

\* C9: a delete request the backend rejected is never followed by the
\* "deleted" line for that resource, nor by a successful end of the run.
C9_FailuresReported ==
    \A p \in Procs : \A i \in 1..Len(calls[p]) :
        (IsDelete(calls[p][i]) /\ calls[p][i].result # "ok") =>
            /\ \A n \in 1..Len(out[p]) :
                   ~(out[p][n].tag = DeletedTags[DeleteRank(calls[p][i])]
                     /\ out[p][n].text = calls[p][i].name)
            /\ ret[p] \notin {"0", "None"}

NoDeleteRejected(p) ==
    \A i \in 1..Len(calls[p]) : IsDelete(calls[p][i]) => calls[p][i].result = "ok"

\* a teardown of everything, with the agent version, that returned
FullTeardownReturned(p) ==
    \/ kind[p] = "main" /\ args[p].cleanup /\ ret[p] = "0"
    \/ kind[p] = "delete_resources" /\ ret[p] = "None"
          /\ \A k \in 1..4 : Requested(p, k)

\* C10: after a teardown with an agent version in which the backend
\* accepted every deletion, none of ks-A, kb-A, conn-A and the given
\* version of agent A exists.
C10_RollbackComplete ==
    \A p \in Procs : (FullTeardownReturned(p) /\ NoDeleteRejected(p)) =>
        LET A == IF kind[p] = "main" THEN args[p].agent_name ELSE del[p].agent_name
            v == IF kind[p] = "main" THEN agent[p] ELSE del[p].agent_version IN
        /\ "ks-" \o A \notin Names(ks)
        /\ "kb-" \o A \notin Names(kb)
        /\ "conn-" \o A \notin Names(conn)
        /\ \A a \in agents : ~(a.name = A /\ a.version = v)

\* a CLI run provisioned all four resources and its cleanup deleted them
C10_Witness ==
    \E p \in Procs :
        /\ kind[p] = "main" /\ args[p].cleanup /\ ret[p] = "0"
        /\ Len(Creates(p)) = 4 /\ Len(Deletes(p)) = 4 /\ NoDeleteRejected(p)

\* C11: deleting a resource that no longer exists counts as success: a
\* teardown whose deletes were all answered with success or "not found"
\* returns successfully, having attempted every deletion asked for.
C11_TeardownIdempotent ==
    \A p \in Procs :
        (TeardownEnded(p)
           /\ \A i \in 1..Len(calls[p]) :
                 IsDelete(calls[p][i]) => calls[p][i].result \in {"ok", "ResourceNotFoundError"})
        => /\ ret[p] \in {"0", "None"}
           /\ \A k \in 1..4 : Requested(p, k) =>
                 \E i \in 1..Len(calls[p]) : calls[p][i].op = DeleteOps[k]

\* C12: a CLI run started with a required environment variable missing or
\* empty issues no backend request at all and ends with return value 1.
C12_PreflightConfiguration ==
    \A p \in Procs :
        (kind[p] = "main" /\ pc[p] # "idle"
           /\ \E i \in 1..4 : REQUIRED_ENV_VARS[i] \notin args[p].env)
        => /\ calls[p] = <<>>
           /\ pc[p] \in {"validate", "done"}
           /\ pc[p] = "done" => ret[p] = "1"
           /\ ret[p] # "0"

C12_Witness ==
    \E p \in Procs :
        /\ kind[p] = "main" /\ pc[p] = "done" /\ ret[p] = "1"
        /\ "PROJECT_RESOURCE_ID" \notin args[p].env
        /\ calls[p] = <<>>

\* the effort the knowledge base is to get for a --reasoning value
ExpectedEffort(r) == IF r \in {"minimal", "low", "medium"} THEN r ELSE "minimal"

NoFault(p) == \A i \in 1..Len(calls[p]) : calls[p][i].result = "ok"

\* C13: the knowledge base is upserted with the given reasoning level when it
\* is minimal, low or medium and with minimal otherwise; an invalid level
\* never fails the run and never keeps a provisioning step from being issued.
C13_ReasoningDefault ==
    \A p \in Procs : kind[p] = "main" =>
        /\ pc[p] \in {"step3", "step4", "test_query", "ready"} =>
               \E x \in kb : /\ x.name = "kb-" \o args[p].agent_name
                             /\ x.retrieval_reasoning_effort = ExpectedEffort(args[p].reasoning)
        /\ (pc[p] = "done" /\ args[p].env = RequiredSet /\ NoFault(p)) =>
               /\ ret[p] = "0"
               /\ Len(Creates(p)) = 4

\* C14: when the caller gives no source fields, the knowledge source is
\* upserted with the same 2-element default on every entry point; the list
\* sent is never empty.
C14_SourceFieldsDefault ==
    /\ \A x \in ks : x.source_data_fields # <<>>
    /\ \A p \in Procs :
           (~args[p].fields_flag /\ Creates(p) # <<>> /\ Creates(p)[1].result = "ok"
              /\ pc[p] \in {"step2", "returned"}) =>
               \E x \in ks : /\ x.name = "ks-" \o args[p].agent_name
                             /\ Len(x.source_data_fields) = 2
                             /\ x.source_data_fields = <<"id", "title">>

Retrieves(p) == SelectSeq(calls[p], LAMBDA c : c.op = "retrieve")
LastLine(p) == out[p][Len(out[p])]

\* C15: the smoke test issues one retrieval request against the named
\* knowledge base and yields the first message's text; with zero messages
\* it fails with an error of its own kind, told apart from the report of a
\* backend failure of the request.
C15_SmokeTest ==
    \A p \in Procs : kind[p] = "main" =>
        /\ Len(Retrieves(p)) <= 1
        /\ \A i \in 1..Len(Retrieves(p)) :
               /\ Retrieves(p)[i].name = "kb-" \o args[p].agent_name
               /\ Retrieves(p)[i].result = "ok" =>
                      \E n \in 1..Len(out[p]) : out[p][n].tag = "Response"
               /\ Retrieves(p)[i].result = "empty" =>
                      /\ ret[p] = "1"
                      /\ \A e \in SdkErrors : LastLine(p).tag # ExceptTag(ExcType(e))

\* the resource a teardown was asked to delete as its k-th
SelectedName(p, k) ==
    CASE k = 1 -> del[p].agent_name
      [] k = 2 -> del[p].connection_name
      [] k = 3 -> del[p].kb_name
      [] k = 4 -> del[p].ks_name

HasCall(p, op) == \E i \in 1..Len(calls[p]) : calls[p][i].op = op

C16_Issued ==
    \A p \in Procs : del[p] # NoDel =>
        \* only what was selected is ever requested, under the selected name
        /\ \A i \in 1..Len(calls[p]) : IsDelete(calls[p][i]) =>
               /\ Requested(p, DeleteRank(calls[p][i]))
               /\ calls[p][i].name = SelectedName(p, DeleteRank(calls[p][i]))
        \* once the teardown is over: the agent-version delete was issued iff
        \* a version was given, each other delete iff its resource was selected
        /\ TeardownEnded(p) =>
               /\ HasCall(p, "delete_version") <=> del[p].agent_version # NoVersion
               /\ \A k \in 2..4 : Requested(p, k) <=> HasCall(p, DeleteOps[k])

\* a step of a teardown changes a store only by removing the selected resource
C16_Frame ==
    \A p \in Procs : pc[p] \in {"del_agent", "del_conn", "del_kb", "del_ks"} =>
        /\ ks' # ks => (del[p].ks_name # None /\ ks' = {x \in ks : x.name # del[p].ks_name})
        /\ kb' # kb => (del[p].kb_name # None /\ kb' = {x \in kb : x.name # del[p].kb_name})
        /\ conn' # conn =>
               (del[p].connection_name # None
                  /\ conn' = {x \in conn : x.name # del[p].connection_name})
        /\ agents' # agents =>
               (del[p].agent_version # NoVersion
                  /\ agents' = {a \in agents : ~(a.name = del[p].agent_name
                                                 /\ a.version = del[p].agent_version)})
        /\ issued' = issued

\* C16: a teardown deletes exactly what it is asked to delete: the agent
\* version iff a version is given, each of connection, knowledge base and
\* knowledge source iff it is selected (also when the version is omitted),
\* and it leaves every resource that is not selected unchanged.
C16_ExactTeardown == []C16_Issued /\ [][C16_Frame]_vars

\* the names a run for agent name A addresses, per resource kind
Addressed(A) == {A, "ks-" \o A, "kb-" \o A, "conn-" \o A}

\* the effect of one accepted request of run p on the four stores
ApplyCall(st, p, c) ==
    LET A == args[p].agent_name IN
    IF c.result # "ok" THEN st
    ELSE CASE c.op = "create_or_update_knowledge_source" ->
                  [st EXCEPT !.ks = {x \in @ : x.name # c.name} \cup
                       {[name |-> c.name, search_index_name |-> args[p].index_name,
                         source_data_fields |-> <<"id", "title">>]}]
           [] c.op = "create_or_update_knowledge_base" ->
                  [st EXCEPT !.kb = {x \in @ : x.name # c.name} \cup
                       {[name |-> c.name, knowledge_sources |-> <<"ks-" \o A>>,
                         retrieval_reasoning_effort |-> "minimal"]}]
           [] c.op = "PUT connection" ->
                  [st EXCEPT !.conn = {x \in @ : x.name # c.name} \cup
                       {[name |-> c.name, target |-> ExpectedEndpoint(A)]}]
           [] c.op = "create_version" ->
                  [st EXCEPT !.agents = @ \cup
                       {[name |-> c.name, version |-> c.version,
                         server_url |-> ExpectedEndpoint(A),
                         project_connection_id |-> "conn-" \o A]}]
           [] c.op = "delete_version" ->
                  [st EXCEPT !.agents = {x \in @ : ~(x.name = c.name /\ x.version = c.version)}]
           [] c.op = "DELETE connection" -> [st EXCEPT !.conn = {x \in @ : x.name # c.name}]
           [] c.op = "delete_knowledge_base" -> [st EXCEPT !.kb = {x \in @ : x.name # c.name}]
           [] c.op = "delete_knowledge_source" -> [st EXCEPT !.ks = {x \in @ : x.name # c.name}]
           [] OTHER -> st

RECURSIVE ApplyCalls(_, _, _)
ApplyCalls(st, p, n) ==
    IF n = 0 THEN st ELSE ApplyCall(ApplyCalls(st, p, n - 1), p, calls[p][n])

\* the stores after run p alone, started on stores st
RunAlone(st, p) == ApplyCalls(st, p, Len(calls[p]))
EmptyStores == [ks |-> {}, kb |-> {}, conn |-> {}, agents |-> {}]
Stores == [ks |-> ks, kb |-> kb, conn |-> conn, agents |-> agents]

C17_State ==
    /\ \A A, B \in AgentNames : A # B =>
           /\ ks_name(A) # ks_name(B) /\ kb_name(A) # kb_name(B)
           /\ conn_name(A) # conn_name(B)
    /\ \A p, q \in Procs :
           (pc[p] # "idle" /\ pc[q] # "idle" /\ args[p].agent_name # args[q].agent_name) =>
               \* no request of p names a resource that q addresses
               /\ \A i \in 1..Len(calls[p]) :
                      /\ calls[p][i].name \in Addressed(args[p].agent_name)
                      /\ calls[p][i].name \notin Addressed(args[q].agent_name)
               \* the first two runs, both over: the stores are those of the
               \* two runs made one after the other, in either order
               /\ (p # q /\ runs = 2 /\ pc[p] = "done" /\ pc[q] = "done") =>
                      Stores = RunAlone(RunAlone(EmptyStores, p), q)

\* a request of run p changes no resource and no version counter outside
\* the names p addresses
C17_Step ==
    \A p \in Procs : calls'[p] # calls[p] =>
        LET Own == Addressed(args'[p].agent_name)
            Others(store) == {x \in store : x.name \notin Own} IN
        /\ Others(ks') = Others(ks) /\ Others(kb') = Others(kb)
        /\ Others(conn') = Others(conn) /\ Others(agents') = Others(agents)
        /\ \A B \in AgentNames \ {args'[p].agent_name} : issued'[B] = issued[B]

\* C17: two provision runs for different agent names, their steps
\* interleaved in any order, never create, replace or delete a resource the
\* other run addresses: the derived names are disjoint per resource kind,
\* and the final resource set is the one of the two runs made one after the
\* other.
C17_Isolation == []C17_State /\ [][C17_Step]_vars

\* two runs under way at once: one creating its connection while the other
\* one is deleting its knowledge base
C17_Witness ==
    \E p, q \in Procs :
        /\ args[p].agent_name # args[q].agent_name
        /\ pc[p] = "step3" /\ pc[q] = "del_kb"

\* position of the first request of run p with the given property, 0 if none
FirstCall(p, Test(_)) ==
    IF \E i \in 1..Len(calls[p]) : Test(calls[p][i])
    THEN CHOOSE i \in 1..Len(calls[p]) :
             Test(calls[p][i]) /\ \A j \in 1..(i - 1) : ~Test(calls[p][j])
    ELSE 0
IsRetrieve(c) == c.op = "retrieve"
AllCreated(p, n) ==
    /\ n >= 4
    /\ \A k \in 1..4 : calls[p][k].op = CreateOps[k] /\ calls[p][k].result = "ok"

\* C19: in a CLI run the cleanup deletions are issued only when cleanup
\* was requested and the four creation steps and the optional test query
\* completed without error; the test query is issued only after step 4
\* succeeded.  So when cleanup is requested and the test query fails after
\* the four resources were created, no deletion is attempted, the four
\* resources remain and the exit code is non-zero.
C19_CleanupOnlyAfterSuccess ==
    \A p \in Procs : kind[p] = "main" =>
        LET A == args[p].agent_name
            d == FirstCall(p, IsDelete)
            r == FirstCall(p, IsRetrieve) IN
        /\ (d # 0 \/ del[p] # NoDel) =>
               /\ args[p].cleanup
               /\ AllCreated(p, Len(calls[p]))
               /\ args[p].test_query <=> r = 5
               /\ r # 0 => calls[p][r].result = "ok"
               /\ d # 0 => \A i \in 1..(d - 1) : calls[p][i].result = "ok"
        /\ r # 0 => (args[p].test_query /\ r = 5 /\ AllCreated(p, r - 1))
        /\ (r # 0 /\ calls[p][r].result # "ok") =>
               /\ d = 0 /\ del[p] = NoDel
               /\ Len(calls[p]) = r
               /\ pc[p] = "done" /\ ret[p] = "1"
               /\ "ks-" \o A \in Names(ks) /\ "kb-" \o A \in Names(kb)
               /\ "conn-" \o A \in Names(conn)
               /\ \E a \in agents : a.name = A /\ a.version = agent[p]

\* cleanup requested, four resources created, then the test query failed
C19_Witness ==
    \E p \in Procs :
        /\ kind[p] = "main" /\ args[p].cleanup /\ args[p].test_query
        /\ Len(calls[p]) = 5 /\ calls[p][5].op = "retrieve" /\ calls[p][5].result # "ok"
        /\ pc[p] = "done"

\* every reference between the stored resources leads to a stored resource
Integrity ==
    /\ \A a \in agents : a.project_connection_id \in Names(conn)
    /\ \A c \in conn : \E k \in kb : c.target = mcp_endpoint_of(k.name)
    /\ \A k \in kb : \A i \in 1..Len(k.knowledge_sources) : k.knowledge_sources[i] \in Names(ks)

\* C18: referential integrity holds in every state reached during a
\* teardown, whatever deletions fail: an agent version exists only if the
\* connection it references exists, the connection only if the knowledge
\* base it targets exists, the knowledge base only if its knowledge source
\* exists.
C18_ReferentialIntegrity ==
    (\E p \in Procs : kind[p] = "main" /\ del[p] # NoDel) => Integrity

BasicDeletes == SelectSeq(basic_calls, LAMBDA c : c.op = "delete_agent")
BasicCreated == SelectSeq(basic_calls, LAMBDA c : c.op = "create_agent" /\ c.result = "ok")

\* C20: in the basic agent example delete_agent is called exactly once,
\* with the created agent's id, before main exits if create_agent
\* succeeded, whichever later request raises and whatever the run status
\* is; it is never called if create_agent failed.
C20_AgentDeletedOnce ==
    /\ Len(BasicDeletes) <= 1
    /\ Len(BasicCreated) <= 1
    /\ BasicCreated = <<>> => BasicDeletes = <<>>
    /\ BasicDeletes # <<>> =>
           /\ BasicDeletes[1].id = BasicCreated[1].id
           /\ BasicDeletes[1].id # NoAgent
           /\ basic_calls[Len(basic_calls)].op = "delete_agent"
           /\ basic_pc = "exited"
    /\ (basic_pc = "exited" /\ BasicCreated # <<>>) => Len(BasicDeletes) = 1

\* thread creation raised after the agent was created; the agent was
\* deleted and the exception left main
C20_Witness ==
    /\ basic_pc = "exited" /\ basic_exc \in SdkErrors
    /\ Len(basic_calls) = 3
    /\ basic_calls[1].op = "create_agent" /\ basic_calls[1].result = "ok"
    /\ basic_calls[2].op = "threads.create" /\ basic_calls[2].result # "ok"
    /\ basic_calls[3].op = "delete_agent" /\ basic_calls[3].id = basic_calls[1].id

\* the documented evaluator names, and those that need the project scope
KnownEvaluators ==
    {"groundedness", "groundedness_pro", "relevance", "coherence", "fluency",
     "similarity", "retrieval", "f1", "rouge", "bleu", "gleu", "meteor",
     "violence", "sexual", "self_harm", "hate_unfairness", "code_vulnerability",
     "ungrounded_attributes", "intent_resolution", "response_completeness",
     "task_adherence", "tool_call_accuracy", "qa", "content_safety"}
ScopeEvaluators ==
    {"groundedness_pro", "content_safety", "violence", "sexual", "self_harm",
     "hate_unfairness", "code_vulnerability", "ungrounded_attributes"}
ExpectedKeys(names, scope) ==
    {n \in Elems(names) : n \in KnownEvaluators /\ (~scope => n \notin ScopeEvaluators)}

\* C21: for every list of evaluator names, with or without the project
\* scope, build_evaluators does not fail; the keys of the mapping it returns
\* are the requested known names, less groundedness_pro, the safety
\* evaluators and content_safety when there is no project scope; unknown
\* names are skipped, duplicates give one entry, and every name passed to
\* build_safety_evaluator has an entry in its lookup table.
C21_BuildEvaluators ==
    /\ eval_pc # "raised"
    /\ eval_ret # "KeyError"
    /\ \A i \in 1..Len(eval_passed) : eval_passed[i] \in DOMAIN safety_map
    /\ eval_pc = "returned" =>
           /\ DOMAIN eval_evaluators = ExpectedKeys(eval_names, eval_args.project_scope)
           /\ \A n \in DOMAIN eval_evaluators : n # "unknown"

\* a call that asked twice for the composite safety evaluator, with the
\* project scope present, and got one entry
C21_Witness ==
    /\ eval_pc = "returned"
    /\ eval_names = <<"content_safety", "content_safety">>
    /\ eval_args.project_scope
    /\ DOMAIN eval_evaluators = {"content_safety"}
    /\ Len(eval_passed) = 2

\* the evaluator names a command line asks for
RequestedNames(a) ==
    a.evaluators
        \o (IF a.safety THEN <<"violence", "sexual", "self_harm", "hate_unfairness",
                               "code_vulnerability", "ungrounded_attributes">> ELSE <<>>)
        \o (IF a.agent THEN <<"intent_resolution", "response_completeness",
                              "task_adherence", "tool_call_accuracy">> ELSE <<>>)
NoneBuildable(a) == ExpectedKeys(RequestedNames(a), a.project_scope) = {}

\* C22: in the batch-evaluation CLI the evaluation backend is invoked at
\* most once, and only after the data file was found, the model endpoint
\* configuration was present and at least one evaluator was built; when one
\* of these checks fails the run exits with code 1, the evaluation is not
\* invoked and the output file is not written.
C22_EvaluateGuarded ==
    eval_kind = "main" =>
        /\ eval_evaluate <= 1
        /\ eval_evaluate = 1 =>
               /\ eval_args.data_exists /\ eval_args.endpoint
               /\ ~NoneBuildable(eval_args)
               /\ DOMAIN eval_evaluators # {}
        /\ eval_written => (eval_evaluate = 1 /\ eval_ret = "0")
        /\ (eval_args.data_given
              /\ (~eval_args.data_exists \/ ~eval_args.endpoint \/ NoneBuildable(eval_args))) =>
               /\ eval_evaluate = 0 /\ ~eval_written
               /\ eval_pc \in {"check_data", "get_model_config", "build_evaluators",
                               "check_evaluators", "exited"}
               /\ eval_pc = "exited" => eval_ret = "1"

\* a run with --output whose only evaluator needs the missing project
\* scope: it ended with status 1 after the evaluator check
C22_Witness ==
    /\ eval_kind = "main" /\ eval_pc = "exited" /\ eval_ret = "1"
    /\ eval_args.data_exists /\ eval_args.endpoint /\ eval_args.output
    /\ eval_names = <<"violence">> /\ ~eval_args.project_scope
    /\ eval_evaluate = 0 /\ ~eval_written

====
